---------------------------- MODULE Spec2Model ----------------------------
(***************************************************************************)
(* A model of btif/src/btif_config.c: the lock-guarded configuration       *)
(* store, its hex codec for binary values, the debounced ("settle") save   *)
(* timer and the garbage collection of stale device sections.              *)
(*                                                                         *)
(* Texts (C strings) are tuples of one-character strings.  The functions   *)
(* of btif_config.c take (section, key, name); the first is unused, |key|  *)
(* is the name of the store's section and |name| the name of the entry.    *)
(***************************************************************************)
EXTENDS Integers, Sequences, FiniteSets, TLC

VARIABLES
  store,      \* config: the in-memory store, a sequence of sections
  disk,       \* the image last written to CONFIG_FILE_PATH
  lock,       \* the owner of the pthread mutex |lock|, or NoThread
  pc,         \* pc[t]: where caller thread t stands
  local,      \* local[t]: the arguments, locals and results of t's call
  alarm,      \* alarm_timer: [armed, remaining], the pending countdown
  tpc,        \* where the alarm dispatcher thread stands in timer_config_save
  cursor,     \* cursor[t]: the section iterator caller thread t holds
  hist,       \* history (observations only, never read by the program)
  config,     \* the static pointer |config|: "NULL", or "store"
  alarm_timer,\* the static pointer |alarm_timer|: "NULL", or "alarm"
  legacy      \* whether the file at LEGACY_CONFIG_FILE_PATH exists

vars ==
  <<store, disk, lock, pc, local, alarm, tpc, cursor, hist, config,
    alarm_timer, legacy>>

---------------------------------------------------------------------------
(* Bounds of the model.                                                    *)

\* Longest byte sequence handed to btif_config_set_bin.
MaxBinLen == 2

\* The capacity of the GC's candidate list.  The source sets 256; the
\* model runs the same code with a small capacity, the threshold staying
\* twice the capacity.
CACHE_MAX == 2

\* The settle period in clock ticks (the source sets 3000 ms).
CONFIG_SETTLE_PERIOD_MS == 2

\* Number of device addresses the model's sections are drawn from.
NumDevices == 6

---------------------------------------------------------------------------
(* Texts and characters.                                                   *)

lookup == <<"0","1","2","3","4","5","6","7","8","9","a","b","c","d","e","f">>

UpperHex == <<"A","B","C","D","E","F">>

\* isxdigit(3)
isxdigit(c) ==
  \/ \E i \in 1..16 : lookup[i] = c
  \/ \E i \in 1..6 : UpperHex[i] = c

\* The value of a hexadecimal digit, as sscanf's %x conversion reads it.
HexVal(c) ==
  IF \E i \in 1..16 : lookup[i] = c
    THEN (CHOOSE i \in 1..16 : lookup[i] = c) - 1
    ELSE (CHOOSE i \in 1..6 : UpperHex[i] = c) + 9

\* A possibly-NULL const char *.
NullStr == [isNull |-> TRUE, text |-> <<>>]
Str(s) == [isNull |-> FALSE, text |-> s]


---------------------------------------------------------------------------
(* The codec of binary values: btif_config_set_bin's encoding loop and     *)
(* btif_config_get_bin's checks and decoding loop.                         *)

\* str[(i * 2) + 0] = lookup[(value[i] >> 0) & 0x0F];
\* str[(i * 2) + 1] = lookup[(value[i] >> 4) & 0x0F];
EncodeByte(v) ==
  <<lookup[(v % 16) + 1], lookup[((v \div 16) % 16) + 1]>>

RECURSIVE EncodeFrom(_, _)
EncodeFrom(value, i) ==
  IF i > Len(value) THEN <<>>
  ELSE EncodeByte(value[i]) \o EncodeFrom(value, i + 1)

\* The text btif_config_set_bin stores for the bytes |value|.
EncodeBin(value) == EncodeFrom(value, 1)

\* sscanf(value_str, "%02hhx", &out): at most two hexadecimal digits, the
\* first one the more significant, converted into an unsigned char.
ScanHex2(text, p) ==
  IF p + 1 <= Len(text) /\ isxdigit(text[p + 1])
    THEN (HexVal(text[p]) * 16 + HexVal(text[p + 1])) % 256
    ELSE HexVal(text[p]) % 256

RECURSIVE DecodeFrom(_, _)
DecodeFrom(text, p) ==
  IF p > Len(text) THEN <<>>
  ELSE <<ScanHex2(text, p)>> \o DecodeFrom(text, p + 2)

\* for (*length = 0; *value_str; value_str += 2, *length += 1) sscanf(...)
DecodeBin(text) == DecodeFrom(text, 1)

AllHex(text) == \A i \in 1..Len(text) : isxdigit(text[i])

\* What btif_config_get_str makes of the string |vs| it read, the caller's
\* buffer |buf| and the caller's *length |len| (at least 1):
\* strlcpy(value, stored_value, *length); *length = strlen(value).
GetStrResult(vs, buf, len) ==
  IF vs.isNull THEN [ok |-> FALSE, buf |-> buf, len |-> len]
  ELSE LET n == IF Len(vs.text) < len - 1 THEN Len(vs.text) ELSE len - 1 IN
    [ok |-> TRUE, buf |-> [i \in 1..n |-> vs.text[i]], len |-> n]

\* Faulty variant: get_bin without the isxdigit loop.
GetBinResult_without_isxdigit(vs, buf, len) ==
  IF vs.isNull THEN [ok |-> FALSE, buf |-> buf, len |-> len]
  ELSE LET value_len == Len(vs.text) IN
    IF (value_len % 2) # 0 \/ len < (value_len \div 2)
      THEN [ok |-> FALSE, buf |-> buf, len |-> len]
    ELSE LET dec == DecodeBin(vs.text) IN
      [ok  |-> TRUE,
       buf |-> [i \in 1..Len(buf) |-> IF i <= Len(dec) THEN dec[i] ELSE buf[i]],
       len |-> Len(dec)]

\* What btif_config_get_bin makes of the string |vs| it read from the store,
\* the caller's buffer |buf| and the caller's *length |len|:
\* [ok, buf, len] as they stand when it returns.
GetBinResult(vs, buf, len) ==
  IF vs.isNull THEN [ok |-> FALSE, buf |-> buf, len |-> len]
  ELSE LET value_len == Len(vs.text) IN
    IF (value_len % 2) # 0 \/ len < (value_len \div 2)
      THEN [ok |-> FALSE, buf |-> buf, len |-> len]
    ELSE IF ~AllHex(vs.text)
      THEN [ok |-> FALSE, buf |-> buf, len |-> len]
    ELSE LET dec == DecodeBin(vs.text) IN
      [ok  |-> TRUE,
       buf |-> [i \in 1..Len(buf) |-> IF i <= Len(dec) THEN dec[i] ELSE buf[i]],
       len |-> Len(dec)]

\* What btif_config_get_bin_length returns for the string it read.
GetBinLengthResult(vs) ==
  IF vs.isNull THEN 0
  ELSE LET value_len == Len(vs.text) IN
    IF (value_len % 2) # 0 THEN 0 ELSE value_len \div 2

---------------------------------------------------------------------------
(* The store (config.h).  A section is [name, entries]; entries maps the   *)
(* names of the section's entries to their texts.  Sections keep the       *)
(* order in which they were created.                                       *)

SectionIndex(cfg, key) ==
  IF \E i \in 1..Len(cfg) : cfg[i].name = key
    THEN CHOOSE i \in 1..Len(cfg) : cfg[i].name = key
    ELSE 0

config_has_section(cfg, key) == SectionIndex(cfg, key) # 0

config_has_key(cfg, key, name) ==
  LET i == SectionIndex(cfg, key) IN
    i # 0 /\ name \in DOMAIN cfg[i].entries

\* config_get_string(config, key, name, NULL)
config_get_string(cfg, key, name) ==
  IF config_has_key(cfg, key, name)
    THEN Str(cfg[SectionIndex(cfg, key)].entries[name])
    ELSE NullStr

SetEntry(entries, name, text) ==
  [n \in (DOMAIN entries) \cup {name} |->
     IF n = name THEN text ELSE entries[n]]

NoEntries == [n \in {} |-> <<>>]

config_set_string(cfg, key, name, text) ==
  LET i == SectionIndex(cfg, key) IN
    IF i = 0
      THEN Append(cfg, [name |-> key, entries |-> SetEntry(NoEntries, name, text)])
      ELSE [cfg EXCEPT ![i].entries = SetEntry(@, name, text)]

config_remove_key(cfg, key, name) ==
  LET i == SectionIndex(cfg, key) IN
    IF i = 0 \/ ~config_has_key(cfg, key, name) THEN cfg
    ELSE [cfg EXCEPT ![i].entries =
            [n \in (DOMAIN @) \ {name} |-> @[n]]]

config_remove_section(cfg, key) ==
  SelectSeq(cfg, LAMBDA s : s.name # key)

\* Decimal text of a small non-negative int (sprintf "%d") and back (strtol).
Digits == <<"0","1","2","3","4","5","6","7","8","9">>

IntToText(n) ==
  IF n < 10 THEN <<Digits[n + 1]>>
  ELSE <<Digits[(n \div 10) + 1], Digits[(n % 10) + 1]>>

IsDigit(c) == \E i \in 1..10 : Digits[i] = c
DigitVal(c) == (CHOOSE i \in 1..10 : Digits[i] = c) - 1

RECURSIVE TextToIntAcc(_, _, _)
TextToIntAcc(text, p, acc) ==
  IF p > Len(text) THEN acc
  ELSE TextToIntAcc(text, p + 1, acc * 10 + DigitVal(text[p]))

\* config_get_int(config, key, name, def): the parsed value, or |def| when
\* the text is not a number.
config_get_int(cfg, key, name, def) ==
  LET vs == config_get_string(cfg, key, name) IN
    IF vs.isNull \/ vs.text = <<>> \/ \E i \in 1..Len(vs.text) : ~IsDigit(vs.text[i])
      THEN def
      ELSE TextToIntAcc(vs.text, 1, 0)

config_set_int(cfg, key, name, n) == config_set_string(cfg, key, name, IntToText(n))

\* str_is_bdaddr: six pairs of hexadecimal digits separated by colons.
str_is_bdaddr(s) ==
  /\ Len(s) = 17
  /\ \A i \in 1..17 : IF i % 3 = 0 THEN s[i] = ":" ELSE isxdigit(s[i])


---------------------------------------------------------------------------
(* Threads, the mutex and the calls of the caller threads.  A call that    *)
(* takes the lock is two or three steps: it acquires the lock, it runs     *)
(* the locked body and releases the lock, and (the getters of strings) it  *)
(* works on the string it read after the lock is released.  A finished     *)
(* call stands at "done" with its results in local[t] until Return.        *)

\* The caller threads.
Threads == {1, 2}

\* The alarm dispatcher thread, which runs timer_config_save.
Timer == Cardinality(Threads) + 1

\* pthread_mutex_lock(&lock) / pthread_mutex_unlock(&lock); |lock| is the
\* set of threads inside the mutex.
MutexLock(t) == lock = {} /\ lock' = {t}
MutexUnlock(t) == lock' = lock \ {t}

\* A possibly-NULL config_t *.
NullCfg == [isNull |-> TRUE, cfg |-> <<>>]
Cfg(c) == [isNull |-> FALSE, cfg |-> c]

\* What a run of btif_config_init met: the results of config_new,
\* btif_config_transcode, config_new_empty, config_save and alarm_new, the
\* canonical file and whether the legacy file existed.
NoInit ==
  [loaded |-> NullCfg, trans |-> NullCfg, empty |-> NullCfg, w_ok |-> FALSE,
   timer_ok |-> FALSE, disk0 |-> <<>>, had_legacy |-> FALSE]

NoLocal ==
  [op |-> "none", key |-> <<>>, name |-> "", val |-> <<>>, bytes |-> <<>>,
   num |-> 0, len |-> 0, buf |-> <<>>, vs |-> NullStr, stale |-> FALSE,
   ok |-> FALSE, init |-> NoInit]

\* The caller's buffer before btif_config_get_bin fills it.
FreshBuf(cap) == [i \in 1..cap |-> 238]

\* Texts a read of freed memory may yield.
GarbageTexts == {<<>>, <<"1">>, <<"z","z">>, <<"f","f">>}

\* The states in which a thread holds a pointer into the store that it
\* reads after releasing the lock.
HoldsPointer(t) == pc[t] \in {"get_bin_decode", "get_bin_length_len", "get_str_copy"}

\* local with the pointers into entry (key, name) marked dangling: the
\* store frees the old text of an entry that is overwritten or removed.
\* |names| is the set of entry names freed in section |key|.
Freed(loc, self, key, names) ==
  [u \in Threads |->
     IF u # self /\ HoldsPointer(u) /\ ~loc[u].vs.isNull
        /\ loc[u].key = key /\ loc[u].name \in names
       THEN [loc[u] EXCEPT !.stale = TRUE]
       ELSE loc[u]]

EntryNames(cfg, key) ==
  IF config_has_section(cfg, key)
    THEN DOMAIN cfg[SectionIndex(cfg, key)].entries
    ELSE {}

\* Faulty variant: entry of a call without assert(config != NULL).
Begin_unasserted(t, op, loc) ==
  /\ pc[t] = "idle"
  /\ pc' = [pc EXCEPT ![t] = op]
  /\ local' = [local EXCEPT ![t] = loc]

\* Entry of a call, past assert(config != NULL).
Begin(t, op, loc) ==
  /\ pc[t] = "idle"
  /\ config # "NULL"
  /\ pc' = [pc EXCEPT ![t] = op]
  /\ local' = [local EXCEPT ![t] = loc]

\* The history after thread t's write to the entry of its call: |bin| is
\* what set_bin wrote, |ints| the int set_int wrote.
WriteHistory(t, bin, ints) ==
  [hist EXCEPT
     !.lastBin = [k \in DOMAIN @ |->
                    IF k = <<local[t].key, local[t].name>> THEN bin ELSE @[k]],
     !.wrote = {w \in @ : ~(w.key = local[t].key /\ w.name = local[t].name)}
                 \cup ints]

\* Faulty variant: set_int without pthread_mutex_lock.
btif_config_set_int_lock_skipped(t, key, name, value) ==
  /\ Begin(t, "set_int", [NoLocal EXCEPT !.op = "set_int", !.key = key,
                                        !.name = name, !.num = value])
  /\ UNCHANGED <<config, alarm_timer, legacy, store, disk, lock, alarm, tpc, cursor, hist>>

\* bool btif_config_set_int(section, key, name, value)
btif_config_set_int_lock(t, key, name, value) ==
  /\ Begin(t, "set_int", [NoLocal EXCEPT !.op = "set_int", !.key = key,
                                        !.name = name, !.num = value])
  /\ MutexLock(t)
  /\ UNCHANGED <<config, alarm_timer, legacy, store, disk, alarm, tpc, cursor, hist>>

btif_config_set_int_body(t) ==
  /\ pc[t] = "set_int"
  /\ store' = config_set_int(store, local[t].key, local[t].name, local[t].num)
  /\ MutexUnlock(t)
  /\ pc' = [pc EXCEPT ![t] = "done"]
  /\ local' = [Freed(local, t, local[t].key, {local[t].name})
                 EXCEPT ![t].ok = TRUE]
  /\ hist' = WriteHistory(t, NullStr, {[key |-> local[t].key,
                                        name |-> local[t].name,
                                        num |-> local[t].num]})
  /\ UNCHANGED <<config, alarm_timer, legacy, disk, alarm, tpc, cursor>>

\* bool btif_config_set_str(section, key, name, value)
btif_config_set_str_lock(t, key, name, value) ==
  /\ Begin(t, "set_str", [NoLocal EXCEPT !.op = "set_str", !.key = key,
                                        !.name = name, !.val = value])
  /\ MutexLock(t)
  /\ UNCHANGED <<config, alarm_timer, legacy, store, disk, alarm, tpc, cursor, hist>>

btif_config_set_str_body(t) ==
  /\ pc[t] = "set_str"
  /\ store' = config_set_string(store, local[t].key, local[t].name, local[t].val)
  /\ MutexUnlock(t)
  /\ pc' = [pc EXCEPT ![t] = "done"]
  /\ local' = [Freed(local, t, local[t].key, {local[t].name})
                 EXCEPT ![t].ok = TRUE]
  /\ hist' = WriteHistory(t, NullStr, {})
  /\ UNCHANGED <<config, alarm_timer, legacy, disk, alarm, tpc, cursor>>

\* Faulty variant: set_bin schedules a flush.
btif_config_set_bin_body_saving(t) ==
  /\ pc[t] = "set_bin"
  /\ store' = config_set_string(store, local[t].key, local[t].name, local[t].val)
  /\ MutexUnlock(t)
  /\ pc' = [pc EXCEPT ![t] = "done"]
  /\ local' = [Freed(local, t, local[t].key, {local[t].name})
                 EXCEPT ![t].ok = TRUE]
  /\ hist' = WriteHistory(t, Str(local[t].bytes), {})
  /\ alarm' = [armed |-> TRUE, remaining |-> CONFIG_SETTLE_PERIOD_MS]
  /\ UNCHANGED <<config, alarm_timer, legacy, disk, tpc, cursor>>

\* bool btif_config_set_bin(section, key, name, value, length): the text is
\* encoded before the lock is taken.
btif_config_set_bin_lock(t, key, name, value) ==
  /\ Begin(t, "set_bin", [NoLocal EXCEPT !.op = "set_bin", !.key = key,
                                        !.name = name, !.bytes = value,
                                        !.val = EncodeBin(value)])
  /\ MutexLock(t)
  /\ UNCHANGED <<config, alarm_timer, legacy, store, disk, alarm, tpc, cursor, hist>>

btif_config_set_bin_body(t) ==
  /\ pc[t] = "set_bin"
  /\ store' = config_set_string(store, local[t].key, local[t].name, local[t].val)
  /\ MutexUnlock(t)
  /\ pc' = [pc EXCEPT ![t] = "done"]
  /\ local' = [Freed(local, t, local[t].key, {local[t].name})
                 EXCEPT ![t].ok = TRUE]
  /\ hist' = WriteHistory(t, Str(local[t].bytes), {})
  /\ UNCHANGED <<config, alarm_timer, legacy, disk, alarm, tpc, cursor>>

\* bool btif_config_remove(section, key, name)
btif_config_remove_lock(t, key, name) ==
  /\ Begin(t, "remove", [NoLocal EXCEPT !.op = "remove", !.key = key,
                                       !.name = name])
  /\ MutexLock(t)
  /\ UNCHANGED <<config, alarm_timer, legacy, store, disk, alarm, tpc, cursor, hist>>

btif_config_remove_body(t) ==
  /\ pc[t] = "remove"
  /\ store' = config_remove_key(store, local[t].key, local[t].name)
  /\ MutexUnlock(t)
  /\ pc' = [pc EXCEPT ![t] = "done"]
  /\ local' = [Freed(local, t, local[t].key, {local[t].name})
                 EXCEPT ![t].ok = config_has_key(store, local[t].key, local[t].name)]
  /\ hist' = WriteHistory(t, NullStr, {})
  /\ UNCHANGED <<config, alarm_timer, legacy, disk, alarm, tpc, cursor>>


\* bool btif_config_has_key(section, key)
btif_config_has_key_lock(t, key) ==
  /\ Begin(t, "has_key", [NoLocal EXCEPT !.op = "has_key", !.key = key])
  /\ MutexLock(t)
  /\ UNCHANGED <<config, alarm_timer, legacy, store, disk, alarm, tpc, cursor, hist>>

btif_config_has_key_body(t) ==
  /\ pc[t] = "has_key"
  /\ MutexUnlock(t)
  /\ pc' = [pc EXCEPT ![t] = "done"]
  /\ local' = [local EXCEPT ![t].ok = config_has_section(store, local[t].key)]
  /\ UNCHANGED <<config, alarm_timer, legacy, store, disk, alarm, tpc, cursor, hist>>

\* bool btif_config_exist(section, key, name)
btif_config_exist_lock(t, key, name) ==
  /\ Begin(t, "exist", [NoLocal EXCEPT !.op = "exist", !.key = key, !.name = name])
  /\ MutexLock(t)
  /\ UNCHANGED <<config, alarm_timer, legacy, store, disk, alarm, tpc, cursor, hist>>

btif_config_exist_body(t) ==
  /\ pc[t] = "exist"
  /\ MutexUnlock(t)
  /\ pc' = [pc EXCEPT ![t] = "done"]
  /\ local' = [local EXCEPT ![t].ok = config_has_key(store, local[t].key, local[t].name)]
  /\ UNCHANGED <<config, alarm_timer, legacy, store, disk, alarm, tpc, cursor, hist>>

\* bool btif_config_get_int(section, key, name, value); *value is 0 on entry.
btif_config_get_int_lock(t, key, name) ==
  /\ Begin(t, "get_int", [NoLocal EXCEPT !.op = "get_int", !.key = key, !.name = name])
  /\ MutexLock(t)
  /\ UNCHANGED <<config, alarm_timer, legacy, store, disk, alarm, tpc, cursor, hist>>

btif_config_get_int_body(t) ==
  /\ pc[t] = "get_int"
  /\ MutexUnlock(t)
  /\ pc' = [pc EXCEPT ![t] = "done"]
  /\ LET ret == config_has_key(store, local[t].key, local[t].name) IN
       local' = [local EXCEPT
         ![t].ok = ret,
         ![t].num = IF ret
                      THEN config_get_int(store, local[t].key, local[t].name, local[t].num)
                      ELSE local[t].num]
  /\ UNCHANGED <<config, alarm_timer, legacy, store, disk, alarm, tpc, cursor, hist>>

\* bool btif_config_get_bin(section, key, name, value, length); |cap| is
\* *length on entry, the capacity of the caller's buffer |value| (kept in
\* local[t].num for the observer; local[t].len is *length).
btif_config_get_bin_lock(t, key, name, cap) ==
  /\ Begin(t, "get_bin", [NoLocal EXCEPT !.op = "get_bin", !.key = key, !.name = name,
                                        !.num = cap, !.len = cap,
                                        !.buf = FreshBuf(cap)])
  /\ MutexLock(t)
  /\ UNCHANGED <<config, alarm_timer, legacy, store, disk, alarm, tpc, cursor, hist>>

\* value_str = config_get_string(...); pthread_mutex_unlock(&lock);
btif_config_get_bin_read(t) ==
  /\ pc[t] = "get_bin"
  /\ MutexUnlock(t)
  /\ pc' = [pc EXCEPT ![t] = "get_bin_decode"]
  /\ local' = [local EXCEPT
       ![t].vs = config_get_string(store, local[t].key, local[t].name)]
  /\ UNCHANGED <<config, alarm_timer, legacy, store, disk, alarm, tpc, cursor, hist>>

\* The string a thread reads through the pointer it kept: the text it
\* pointed to, or anything once that text has been freed.
Pointee(t) ==
  IF local[t].stale
    THEN {Str(g) : g \in GarbageTexts} \cup {local[t].vs}
    ELSE {local[t].vs}

\* The checks and the decoding loop, after the lock is released.
btif_config_get_bin_decode(t) ==
  /\ pc[t] = "get_bin_decode"
  /\ pc' = [pc EXCEPT ![t] = "done"]
  /\ \E vs \in Pointee(t) :
       LET r == GetBinResult(vs, local[t].buf, local[t].len) IN
         local' = [local EXCEPT ![t].ok = r.ok, ![t].buf = r.buf, ![t].len = r.len]
  /\ UNCHANGED <<config, alarm_timer, legacy, store, disk, lock, alarm, tpc, cursor, hist>>

\* bool btif_config_get_str(section, key, name, value, length); |cap| is
\* *length on entry, the size of the caller's buffer |value|, which the
\* call fills with a string (local[t].buf, without its terminator).
btif_config_get_str_lock(t, key, name, cap) ==
  /\ Begin(t, "get_str", [NoLocal EXCEPT !.op = "get_str", !.key = key, !.name = name,
                                        !.num = cap, !.len = cap])
  /\ MutexLock(t)
  /\ UNCHANGED <<config, alarm_timer, legacy, store, disk, alarm, tpc, cursor, hist>>

\* stored_value = config_get_string(...); pthread_mutex_unlock(&lock);
btif_config_get_str_read(t) ==
  /\ pc[t] = "get_str"
  /\ MutexUnlock(t)
  /\ pc' = [pc EXCEPT ![t] = "get_str_copy"]
  /\ local' = [local EXCEPT
       ![t].vs = config_get_string(store, local[t].key, local[t].name)]
  /\ UNCHANGED <<config, alarm_timer, legacy, store, disk, alarm, tpc, cursor, hist>>

\* The copy, after the lock is released.
btif_config_get_str_copy(t) ==
  /\ pc[t] = "get_str_copy"
  /\ pc' = [pc EXCEPT ![t] = "done"]
  /\ \E vs \in Pointee(t) :
       LET r == GetStrResult(vs, local[t].buf, local[t].len) IN
         local' = [local EXCEPT ![t].ok = r.ok, ![t].buf = r.buf, ![t].len = r.len]
  /\ UNCHANGED <<config, alarm_timer, legacy, store, disk, lock, alarm, tpc, cursor, hist>>

\* size_t btif_config_get_bin_length(section, key, name)
btif_config_get_bin_length_lock(t, key, name) ==
  /\ Begin(t, "get_bin_length", [NoLocal EXCEPT !.op = "get_bin_length",
                                               !.key = key, !.name = name])
  /\ MutexLock(t)
  /\ UNCHANGED <<config, alarm_timer, legacy, store, disk, alarm, tpc, cursor, hist>>

btif_config_get_bin_length_read(t) ==
  /\ pc[t] = "get_bin_length"
  /\ MutexUnlock(t)
  /\ pc' = [pc EXCEPT ![t] = "get_bin_length_len"]
  /\ local' = [local EXCEPT
       ![t].vs = config_get_string(store, local[t].key, local[t].name)]
  /\ UNCHANGED <<config, alarm_timer, legacy, store, disk, alarm, tpc, cursor, hist>>

btif_config_get_bin_length_len(t) ==
  /\ pc[t] = "get_bin_length_len"
  /\ pc' = [pc EXCEPT ![t] = "done"]
  /\ \E vs \in Pointee(t) :
       local' = [local EXCEPT ![t].len = GetBinLengthResult(vs)]
  /\ UNCHANGED <<config, alarm_timer, legacy, store, disk, lock, alarm, tpc, cursor, hist>>

\* The caller has read the results of its finished call.
Return(t) ==
  /\ pc[t] = "done"
  /\ pc' = [pc EXCEPT ![t] = "idle"]
  /\ local' = [local EXCEPT ![t] = NoLocal]
  /\ UNCHANGED <<config, alarm_timer, legacy, store, disk, lock, alarm, tpc, cursor, hist>>


---------------------------------------------------------------------------
(* The section iterator: btif_config_section_begin, _end, _next and _name  *)
(* take no lock.  A cursor is a pointer to a section's node, modelled by   *)
(* the section's name; End is the NULL that ends the list.  The node of a  *)
(* removed section is freed: the cursor dangles, and reading through it    *)
(* may yield anything.                                                     *)

End == <<>>

SectionNames(cfg) == {cfg[i].name : i \in 1..Len(cfg)}

\* config_section_begin(config)
config_section_begin(cfg) == IF Len(cfg) = 0 THEN End ELSE cfg[1].name

\* config_section_next(node), for a node still in the list
config_section_next(cfg, node) ==
  LET i == SectionIndex(cfg, node) IN
    IF i = Len(cfg) THEN End ELSE cfg[i + 1].name

btif_config_section_begin(t) ==
  /\ Begin(t, "done", [NoLocal EXCEPT !.op = "section_begin"])
  /\ cursor' = [cursor EXCEPT ![t] = [name |-> config_section_begin(store),
                                      dangling |-> FALSE]]
  /\ UNCHANGED <<config, alarm_timer, legacy, store, disk, lock, alarm, tpc, hist>>

btif_config_section_end(t) ==
  /\ Begin(t, "done", [NoLocal EXCEPT !.op = "section_end",
                                     !.ok = (cursor[t].name = End)])
  /\ UNCHANGED <<config, alarm_timer, legacy, store, disk, lock, alarm, tpc, cursor, hist>>

\* assert(section != NULL)
btif_config_section_next(t) ==
  /\ cursor[t].name # End
  /\ Begin(t, "done", [NoLocal EXCEPT !.op = "section_next"])
  /\ \E n \in IF cursor[t].dangling
                THEN SectionNames(store) \cup {End}
                ELSE {config_section_next(store, cursor[t].name)} :
       cursor' = [cursor EXCEPT ![t] = [name |-> n, dangling |-> FALSE]]
  /\ UNCHANGED <<config, alarm_timer, legacy, store, disk, lock, alarm, tpc, hist>>

btif_config_section_name(t) ==
  /\ cursor[t].name # End
  /\ \E n \in IF cursor[t].dangling
                THEN GarbageTexts
                ELSE {cursor[t].name} :
       Begin(t, "done", [NoLocal EXCEPT !.op = "section_name", !.val = n])
  /\ UNCHANGED <<config, alarm_timer, legacy, store, disk, lock, alarm, tpc, cursor, hist>>

---------------------------------------------------------------------------
(* The alarm (alarm.h): alarm_set arms the alarm, replacing a pending      *)
(* deadline; alarm_cancel removes the pending deadline and then waits      *)
(* until the alarm's callback is not in progress.  The dispatcher thread   *)
(* runs the callback of an expired alarm.  A callback that has started     *)
(* finishes within the clock tick in which it started.                     *)

alarm_set(period) == alarm' = [armed |-> TRUE, remaining |-> period]

alarm_set_keep_deadline(period) ==
  alarm' = IF alarm.armed THEN alarm ELSE [armed |-> TRUE, remaining |-> period]

\* The threads inside btif_config_flush.
InFlush(u) ==
  pc[u] \in {"flush_wait", "flush_lock", "flush_save", "flush_unlock"}

\* A flush is in progress: the timer callback runs, or a thread is inside
\* btif_config_flush.
FlushInProgress == tpc # "idle" \/ \E u \in Threads : InFlush(u)

SaveHistory ==
  [hist EXCEPT !.burst = TRUE, !.sinceSave = 0, !.fires = 0,
               !.fireAt = 0, !.owed = @ \/ FlushInProgress, !.quiet = FALSE,
               !.rearmed = @ \/ (alarm.armed /\
                        alarm.remaining < CONFIG_SETTLE_PERIOD_MS),
               !.during = {u \in Threads : InFlush(u)}]

\* Faulty variant: a save made while the timer callback runs does not arm the alarm.
btif_config_save_dropped_in_callback(t) ==
  /\ Begin(t, "done", [NoLocal EXCEPT !.op = "save"])
  /\ IF tpc = "idle" THEN alarm_set(CONFIG_SETTLE_PERIOD_MS) ELSE alarm' = alarm
  /\ hist' = SaveHistory
  /\ UNCHANGED <<config, alarm_timer, legacy, store, disk, lock, tpc, cursor>>

\* Faulty variant: a save while the alarm is pending leaves its deadline alone.
btif_config_save_keep_deadline(t) ==
  /\ Begin(t, "done", [NoLocal EXCEPT !.op = "save"])
  /\ alarm_set_keep_deadline(CONFIG_SETTLE_PERIOD_MS)
  /\ hist' = SaveHistory
  /\ UNCHANGED <<config, alarm_timer, legacy, store, disk, lock, tpc, cursor>>

\* void btif_config_save(void)
btif_config_save(t) ==
  /\ alarm_timer # "NULL"
  /\ Begin(t, "done", [NoLocal EXCEPT !.op = "save"])
  /\ alarm_set(CONFIG_SETTLE_PERIOD_MS)
  /\ hist' = SaveHistory
  /\ UNCHANGED <<config, alarm_timer, legacy, store, disk, lock, tpc, cursor>>

FlushHistory(t) ==
  [hist EXCEPT !.burst = FALSE, !.sinceSave = 0, !.owed = FALSE,
               !.rearmed = FALSE, !.during = @ \ {t}]

\* Faulty variant: flush without alarm_cancel.
btif_config_flush_cancel_skipped(t) ==
  /\ Begin(t, "flush_wait", [NoLocal EXCEPT !.op = "flush",
                                           !.len = IF alarm.armed THEN 1 ELSE 0])
  /\ hist' = FlushHistory(t)
  /\ UNCHANGED <<config, alarm_timer, legacy, store, disk, lock, alarm, tpc, cursor>>

\* void btif_config_flush(void): alarm_cancel(alarm_timer), first half
\* (local[t].len notes for the observer whether the alarm was armed)
btif_config_flush_cancel(t) ==
  /\ alarm_timer # "NULL"
  /\ Begin(t, "flush_wait", [NoLocal EXCEPT !.op = "flush",
                                           !.len = IF alarm.armed THEN 1 ELSE 0])
  /\ alarm' = [armed |-> FALSE, remaining |-> 0]
  /\ hist' = FlushHistory(t)
  /\ UNCHANGED <<config, alarm_timer, legacy, store, disk, lock, tpc, cursor>>

\* Faulty variant: flush takes the lock before it waits for the callback.
btif_config_flush_wait_holding(t) ==
  /\ pc[t] = "flush_wait"
  /\ lock \subseteq {t}
  /\ lock' = {t}
  /\ pc' = [pc EXCEPT ![t] = IF tpc = "idle" THEN "flush_save" ELSE @]
  /\ UNCHANGED <<config, alarm_timer, legacy, store, disk, local, alarm, tpc, cursor, hist>>

\* alarm_cancel, second half: wait for a callback in progress
btif_config_flush_wait(t) ==
  /\ pc[t] = "flush_wait"
  /\ tpc = "idle"
  /\ pc' = [pc EXCEPT ![t] = "flush_lock"]
  /\ UNCHANGED <<config, alarm_timer, legacy, store, disk, lock, local, alarm, tpc, cursor, hist>>

\* Faulty variant: flush saves without pthread_mutex_lock.
btif_config_flush_lock_skipped(t) ==
  /\ pc[t] = "flush_lock"
  /\ pc' = [pc EXCEPT ![t] = "flush_save"]
  /\ UNCHANGED <<config, alarm_timer, legacy, store, disk, lock, local, alarm, tpc, cursor, hist>>

btif_config_flush_lock(t) ==
  /\ pc[t] = "flush_lock"
  /\ MutexLock(t)
  /\ pc' = [pc EXCEPT ![t] = "flush_save"]
  /\ hist' = [hist EXCEPT !.atLock = store]
  /\ UNCHANGED <<config, alarm_timer, legacy, store, disk, local, alarm, tpc, cursor>>

\* config_save(config, CONFIG_FILE_PATH): the file is written, or the
\* write fails and the file is left as it was.
config_save(cfg) == {[ok |-> TRUE, image |-> cfg], [ok |-> FALSE, image |-> disk]}

btif_config_flush_save(t) ==
  /\ pc[t] = "flush_save"
  /\ \E w \in config_save(store) :
       /\ disk' = w.image
       /\ local' = [local EXCEPT ![t].ok = w.ok, ![t].num = 1]
       /\ hist' = [hist EXCEPT !.failed = ~w.ok]
  /\ pc' = [pc EXCEPT ![t] = "flush_unlock"]
  /\ UNCHANGED <<config, alarm_timer, legacy, store, lock, alarm, tpc, cursor>>

\* btif_config_flush returns to its caller, or into btif_config_cleanup.
btif_config_flush_unlock(t) ==
  /\ pc[t] = "flush_unlock"
  /\ MutexUnlock(t)
  /\ pc' = [pc EXCEPT ![t] = IF local[t].op = "cleanup"
                                THEN "cleanup_free" ELSE "done"]
  /\ hist' = [hist EXCEPT !.quiet = IF t \in hist.during THEN @ ELSE TRUE,
                          !.during = @ \ {t}, !.atLock = <<>>]
  /\ UNCHANGED <<config, alarm_timer, legacy, store, disk, local, alarm, tpc, cursor>>

---------------------------------------------------------------------------
(* timer_config_save: the garbage collection and the save, run by the      *)
(* dispatcher thread when the alarm expires.                               *)

CredentialKeys ==
  {"LinkKey", "LE_KEY_PENC", "LE_KEY_PID", "LE_KEY_PCSRK", "LE_KEY_LENC",
   "LE_KEY_LCSRK"}

\* Faulty variant: the chain without its last call.
HasCredential_without_LCSRK(cfg, section) ==
  \/ config_has_key(cfg, section, "LinkKey")
  \/ config_has_key(cfg, section, "LE_KEY_PENC")
  \/ config_has_key(cfg, section, "LE_KEY_PID")
  \/ config_has_key(cfg, section, "LE_KEY_PCSRK")
  \/ config_has_key(cfg, section, "LE_KEY_LENC")

\* The chain of config_has_key calls of lines 359-364.
HasCredential(cfg, section) ==
  \/ config_has_key(cfg, section, "LinkKey")
  \/ config_has_key(cfg, section, "LE_KEY_PENC")
  \/ config_has_key(cfg, section, "LE_KEY_PID")
  \/ config_has_key(cfg, section, "LE_KEY_PCSRK")
  \/ config_has_key(cfg, section, "LE_KEY_LENC")
  \/ config_has_key(cfg, section, "LE_KEY_LCSRK")

\* The scan: the loop over the sections from snode = cfg[i], with the
\* candidates tracked so far in |keys| and their count in |total|.
RECURSIVE ScanFrom(_, _, _, _)
ScanFrom(cfg, i, keys, total) ==
  IF i > Len(cfg) THEN [keys |-> keys, total_candidates |-> total]
  ELSE LET section == cfg[i].name IN
    IF ~str_is_bdaddr(section) THEN ScanFrom(cfg, i + 1, keys, total)
    ELSE IF HasCredential(cfg, section) THEN ScanFrom(cfg, i + 1, keys, total)
    ELSE ScanFrom(cfg, i + 1,
                  IF Len(keys) < CACHE_MAX THEN Append(keys, section) ELSE keys,
                  total + 1)

\* Faulty variant: the removal loop stops one key early.
RECURSIVE RemoveKeys_leaves_one(_, _, _)
RemoveKeys_leaves_one(cfg, keys, num_keys) ==
  IF num_keys <= 1 THEN cfg
  ELSE RemoveKeys_leaves_one(config_remove_section(cfg, keys[num_keys]),
                             keys, num_keys - 1)

\* while (num_keys > 0) config_remove_section(config, keys[--num_keys]);
RECURSIVE RemoveKeys(_, _, _)
RemoveKeys(cfg, keys, num_keys) ==
  IF num_keys = 0 THEN cfg
  ELSE RemoveKeys(config_remove_section(cfg, keys[num_keys]), keys, num_keys - 1)

\* Faulty variant: the threshold is the capacity, not twice the capacity.
GarbageCollect_at_capacity(cfg) ==
  LET scan == ScanFrom(cfg, 1, <<>>, 0) IN
    IF scan.total_candidates > CACHE_MAX
      THEN RemoveKeys(cfg, scan.keys, Len(scan.keys))
      ELSE cfg

\* The store the garbage collection leaves.
GarbageCollect(cfg) ==
  LET scan == ScanFrom(cfg, 1, <<>>, 0) IN
    IF scan.total_candidates > CACHE_MAX * 2
      THEN RemoveKeys(cfg, scan.keys, Len(scan.keys))
      ELSE cfg

\* Faulty variant: the expired alarm stays on the dispatcher's list.
AlarmFire_stays_pending ==
  /\ tpc = "idle"
  /\ alarm.armed
  /\ alarm.remaining = 0
  /\ alarm' = [armed |-> TRUE, remaining |-> CONFIG_SETTLE_PERIOD_MS]
  /\ tpc' = "lock"
  /\ hist' = [hist EXCEPT !.burst = FALSE, !.fires = @ + 1,
                          !.fireAt = hist.sinceSave, !.sinceSave = 0,
                          !.owed = FALSE]
  /\ UNCHANGED <<config, alarm_timer, legacy, store, disk, lock, pc, local, cursor>>

\* The number of device sections of a store that hold no credential key.
NonBonded(cfg) ==
  Cardinality({i \in 1..Len(cfg) :
                 /\ str_is_bdaddr(cfg[i].name)
                 /\ (DOMAIN cfg[i].entries) \cap CredentialKeys = {}})

\* The dispatcher takes the expired alarm off its list and calls
\* timer_config_save.
AlarmFire ==
  /\ tpc = "idle"
  /\ alarm.armed
  /\ alarm.remaining = 0
  /\ alarm' = [armed |-> FALSE, remaining |-> 0]
  /\ tpc' = "lock"
  /\ hist' = [hist EXCEPT !.burst = FALSE, !.fires = @ + 1,
                          !.fireAt = hist.sinceSave, !.sinceSave = 0,
                          !.owed = FALSE]
  /\ UNCHANGED <<config, alarm_timer, legacy, store, disk, lock, pc, local, cursor>>

timer_config_save_lock ==
  /\ tpc = "lock"
  /\ MutexLock(Timer)
  /\ tpc' = "gc"
  /\ hist' = [hist EXCEPT !.atLock = store]
  /\ UNCHANGED <<config, alarm_timer, legacy, store, disk, pc, local, alarm, cursor>>

\* local and cursor with the pointers into the sections |gone| dangling.
FreedSections(loc, cfg, gone) ==
  [u \in Threads |->
     IF HoldsPointer(u) /\ ~loc[u].vs.isNull /\ loc[u].key \in gone
       THEN [loc[u] EXCEPT !.stale = TRUE]
       ELSE loc[u]]

timer_config_save_gc ==
  /\ tpc = "gc"
  /\ store' = GarbageCollect(store)
  /\ tpc' = "save"
  /\ LET gone == SectionNames(store) \ SectionNames(store') IN
       /\ local' = FreedSections(local, store, gone)
       /\ cursor' = [u \in Threads |->
            IF cursor[u].name \in gone
              THEN [cursor[u] EXCEPT !.dangling = TRUE] ELSE cursor[u]]
       /\ hist' = [hist EXCEPT
            !.lastBin = [k \in DOMAIN @ |-> IF k[1] \in gone THEN NullStr ELSE @[k]],
            !.wrote = {w \in @ : w.key \notin gone},
            !.gone = gone,
            !.base = NonBonded(store')]
  /\ UNCHANGED <<config, alarm_timer, legacy, disk, lock, pc, alarm>>

\* Faulty variant: a failed config_save arms the alarm for another try.
timer_config_save_save_retry ==
  /\ tpc = "save"
  /\ \E w \in config_save(store) :
       /\ disk' = w.image
       /\ hist' = [hist EXCEPT !.tok = w.ok, !.failed = ~w.ok]
       /\ IF w.ok THEN alarm' = alarm ELSE alarm_set(CONFIG_SETTLE_PERIOD_MS)
  /\ tpc' = "unlock"
  /\ UNCHANGED <<config, alarm_timer, legacy, store, lock, pc, local, cursor>>

timer_config_save_save ==
  /\ tpc = "save"
  /\ \E w \in config_save(store) :
       /\ disk' = w.image
       /\ hist' = [hist EXCEPT !.tok = w.ok, !.failed = ~w.ok]
  /\ tpc' = "unlock"
  /\ UNCHANGED <<config, alarm_timer, legacy, store, lock, pc, local, alarm, cursor>>

timer_config_save_unlock ==
  /\ tpc = "unlock"
  /\ MutexUnlock(Timer)
  /\ tpc' = "idle"
  /\ hist' = [hist EXCEPT !.tok = FALSE, !.gone = {}, !.rearmed = FALSE,
                          !.atLock = <<>>]
  /\ UNCHANGED <<config, alarm_timer, legacy, store, disk, pc, local, alarm, cursor>>

\* One tick of the clock.  The dispatcher runs an expired alarm's callback
\* before the next tick.
Tick ==
  /\ tpc = "idle"
  /\ alarm.armed
  /\ alarm.remaining > 0
  /\ alarm' = [alarm EXCEPT !.remaining = @ - 1]
  /\ hist' = [hist EXCEPT !.sinceSave = IF hist.burst THEN @ + 1 ELSE @]
  /\ UNCHANGED <<config, alarm_timer, legacy, store, disk, lock, pc, local, tpc, cursor>>

---------------------------------------------------------------------------
(* Names, values and the initial state.                                    *)

AdapterSection == <<"A","d","a","p","t","e","r">>

Addr(d) ==
  <<"0","0",":","0","0",":","0","0",":","0","0",":","0","0",":","0",d>>

\* The i-th device address, 00:00:00:00:00:01 onwards.
Device(i) == Addr(lookup[i + 1])

\* Seventeen characters that are no address.
NearAddress == Addr("g")

\* Bytes the callers store: 0x00, 0x12, 0xab, 0xff.
ByteSamples == {0, 18, 171, 255}
ByteSeqs == UNION {[1..n -> ByteSamples] : n \in 0..MaxBinLen}

\* Texts the callers store with set_str: well-formed hex in either case,
\* odd length ("12a"), a non-hex character ("1g"), and six digits.
SampleTexts ==
  {<<>>, <<"2","1">>, <<"A","b">>, <<"1","2","a">>, <<"1","g">>,
   <<"0","1","0","2","0","3">>}

HistInit(pairs) ==
  [lastBin |-> [k \in pairs |-> NullStr],
   burst |-> FALSE, sinceSave |-> 0, fires |-> 0, fireAt |-> 0,
   owed |-> FALSE, quiet |-> FALSE, during |-> {}, tok |-> FALSE, gone |-> {},
   rearmed |-> FALSE, wrote |-> {}, failed |-> FALSE, atLock |-> <<>>,
   base |-> 0]

\* The state after a btif_config_init that loaded |cfg| from the file.
InitWith(cfg, pairs) ==
  /\ config = "store"
  /\ alarm_timer = "alarm"
  /\ legacy = FALSE
  /\ store = cfg
  /\ disk = cfg
  /\ lock = {}
  /\ pc = [t \in Threads |-> "idle"]
  /\ local = [t \in Threads |-> NoLocal]
  /\ alarm = [armed |-> FALSE, remaining |-> 0]
  /\ tpc = "idle"
  /\ cursor = [t \in Threads |-> [name |-> End, dangling |-> FALSE]]
  /\ hist = HistInit(pairs)

---------------------------------------------------------------------------
(* The codec through the store: one caller writes and reads one entry.     *)

CodecKey == Device(1)
CodecName == "LinkKey"

InitCodec == InitWith(<<>>, {<<CodecKey, CodecName>>})

NextCodec ==
  \/ \E b \in ByteSeqs : btif_config_set_bin_lock(1, CodecKey, CodecName, b)
  \/ btif_config_set_bin_body(1)
  \/ \E x \in SampleTexts : btif_config_set_str_lock(1, CodecKey, CodecName, x)
  \/ btif_config_set_str_body(1)
  \/ btif_config_remove_lock(1, CodecKey, CodecName)
  \/ btif_config_remove_body(1)
  \/ \E cap \in 0..MaxBinLen : btif_config_get_bin_lock(1, CodecKey, CodecName, cap)
  \/ btif_config_get_bin_read(1)
  \/ btif_config_get_bin_decode(1)
  \/ btif_config_get_bin_length_lock(1, CodecKey, CodecName)
  \/ btif_config_get_bin_length_read(1)
  \/ btif_config_get_bin_length_len(1)
  \/ Return(1)

SpecCodec == InitCodec /\ [][NextCodec]_vars

\* The first n elements of a sequence.
Prefix(s, n) == [i \in 1..n |-> s[i]]

\* C1: every get_bin that finishes on an entry last written by
\* set_bin(b), with a buffer of capacity at least |b|, succeeds and
\* returns exactly b with length |b|.
C1_RoundTrip ==
  \A t \in Threads :
    LET b == hist.lastBin[<<local[t].key, local[t].name>>] IN
      (pc[t] = "done" /\ local[t].op = "get_bin" /\ ~b.isNull
         /\ local[t].num >= Len(b.text))
      => /\ local[t].ok
         /\ local[t].len = Len(b.text)
         /\ Prefix(local[t].buf, Len(b.text)) = b.text

\* C10: get_bin_length returns 0 when the entry is absent or its text is
\* malformed (odd length or a non-hex character) and half the length of
\* the text otherwise; so a get_bin with a buffer of the length it
\* returned, when that is positive, succeeds.
C10_LengthZeroIfMalformed ==
  \A t \in Threads :
    (pc[t] = "done" /\ local[t].op = "get_bin_length")
    => LET vs == config_get_string(store, local[t].key, local[t].name)
           L == local[t].len
       IN /\ L = IF vs.isNull \/ Len(vs.text) % 2 # 0 \/ ~AllHex(vs.text)
                   THEN 0 ELSE Len(vs.text) \div 2
          /\ L > 0 => GetBinResult(vs, FreshBuf(L), L).ok

\* A step of thread t inside a call of btif_config_get_bin.
GetBinStep(t) ==
  \/ pc[t] = "idle" /\ pc'[t] = "get_bin"
  \/ pc[t] \in {"get_bin", "get_bin_decode"} /\ pc'[t] # pc[t]

\* C11: a finished get_bin has failed, leaving the caller's buffer and
\* length as they were, when the entry is absent, its text has odd length,
\* holds a character that is no hex digit, or decodes to more bytes than
\* the caller's capacity; in every other case it has succeeded with the
\* length set to half the length of the text.  No step of get_bin
\* changes the store.
C11_GetBinContract ==
  /\ [](\A t \in Threads :
          (pc[t] = "done" /\ local[t].op = "get_bin")
          => LET vs == config_get_string(store, local[t].key, local[t].name)
                 cap == local[t].num
                 fails == \/ vs.isNull
                          \/ Len(vs.text) % 2 = 1
                          \/ \E i \in 1..Len(vs.text) : ~isxdigit(vs.text[i])
                          \/ Len(vs.text) \div 2 > cap
             IN IF fails
                  THEN /\ ~local[t].ok
                       /\ local[t].buf = FreshBuf(cap)
                       /\ local[t].len = cap
                  ELSE /\ local[t].ok
                       /\ local[t].len = Len(vs.text) \div 2)
  /\ [][\A t \in Threads : GetBinStep(t) => store' = store]_vars

\* A get_bin with room for a byte has failed on the stored text "1g".
C11_Witness ==
  \E t \in Threads :
    /\ pc[t] = "done" /\ local[t].op = "get_bin" /\ ~local[t].ok
    /\ local[t].num >= 1
    /\ config_get_string(store, local[t].key, local[t].name) = Str(<<"1","g">>)

---------------------------------------------------------------------------
(* The garbage collection over many stores: one caller bonds and unbonds   *)
(* devices, adds sections and saves; the timer runs timer_config_save.     *)

\* The credential key the i-th device of an initial store is bonded with.
CredentialOf(i) ==
  <<"LinkKey", "LE_KEY_PENC", "LE_KEY_PID", "LE_KEY_PCSRK", "LE_KEY_LENC",
    "LE_KEY_LCSRK">>[((i - 1) % 6) + 1]

SomeText == <<"2","1">>

Entries1(name, text) == SetEntry(NoEntries, name, text)

\* A device section: bonded (it holds its credential key) or not.
DeviceSection(i, bonded) ==
  [name |-> Device(i),
   entries |-> IF bonded
                 THEN SetEntry(Entries1("Name", SomeText), CredentialOf(i), SomeText)
                 ELSE Entries1("Name", SomeText)]

OtherSection(n) == [name |-> n, entries |-> Entries1("Name", SomeText)]

\* The stores the garbage collection starts from: the adapter's section,
\* then the devices, each bonded or not, in rising or falling order of
\* their addresses, then a section whose name is nearly an address.  The
\* last device may be missing.
GCStores ==
  {<<OtherSection(AdapterSection)>>
     \o [i \in 1..n |-> DeviceSection(IF up THEN i ELSE n + 1 - i,
                                      f[IF up THEN i ELSE n + 1 - i])]
     \o <<OtherSection(NearAddress)>> :
       n \in {NumDevices - 1, NumDevices}, f \in [1..NumDevices -> BOOLEAN],
       up \in BOOLEAN}

InitGC == \E cfg \in GCStores : InitWith(cfg, {})

GCKeys == {Device(1), Device(NumDevices)}

NextGC ==
  \/ \E k \in GCKeys : btif_config_set_str_lock(1, k, "LinkKey", SomeText)
  \/ btif_config_set_str_body(1)
  \/ btif_config_remove_lock(1, Device(1), "LinkKey")
  \/ btif_config_remove_body(1)
  \/ btif_config_save(1)
  \/ btif_config_flush_cancel(1)
  \/ btif_config_flush_wait(1)
  \/ btif_config_flush_lock(1)
  \/ btif_config_flush_save(1)
  \/ btif_config_flush_unlock(1)
  \/ Return(1)
  \/ Tick
  \/ AlarmFire
  \/ timer_config_save_lock
  \/ timer_config_save_gc
  \/ timer_config_save_save
  \/ timer_config_save_unlock

SpecGC == InitGC /\ [][NextGC]_vars

\* The step of timer_config_save that scans and removes.
GCStep == tpc = "gc" /\ tpc' = "save"

\* A section is protected when its name is no address or it holds one of
\* the six credential keys.
Protected(sec) ==
  \/ ~str_is_bdaddr(sec.name)
  \/ (DOMAIN sec.entries) \cap CredentialKeys # {}

\* The sections of a store that satisfy P, in store order.
Sections(cfg, P(_)) == SelectSeq(cfg, P)

\* C2: the GC step removes no section that is not a device section and no
\* device section holding a credential key at the time of the scan: the
\* protected sections are the same, in the same order and with the same
\* entries, after the step; with no unprotected section nothing is removed.
C2_GCKeepsProtected ==
  [][GCStep =>
       /\ Sections(store', Protected) = Sections(store, Protected)
       /\ (\A i \in 1..Len(store) : Protected(store[i])) => store' = store]_vars

\* A GC step has removed sections from a store that holds a bonded device
\* section and a section that is no device section.
C2_Witness ==
  /\ tpc = "save"
  /\ hist.gone # {}
  /\ \E i \in 1..Len(store) :
       str_is_bdaddr(store[i].name) /\ "LE_KEY_LCSRK" \in DOMAIN store[i].entries
  /\ \E i \in 1..Len(store) : store[i].name = NearAddress

Candidate(sec) == ~Protected(sec)

\* C3: with n non-bonded device sections and capacity C, the GC step
\* removes exactly the first C of them in store order when n > 2 * C
\* and removes nothing when n <= 2 * C.
C3_GCRemovesFirstC ==
  [][GCStep =>
       LET cands == Sections(store, Candidate)
           n == Len(cands)
           first == {cands[i].name : i \in 1..CACHE_MAX}
       IN IF n > 2 * CACHE_MAX
            THEN /\ store' = SelectSeq(store, LAMBDA sec : sec.name \notin first)
                 /\ Len(Sections(store', Candidate)) = n - CACHE_MAX
            ELSE store' = store]_vars

\* A GC step has removed CACHE_MAX sections and left candidates behind.
C3_Witness ==
  /\ tpc = "save"
  /\ Cardinality(hist.gone) = CACHE_MAX
  /\ Len(Sections(store, Candidate)) > 0


---------------------------------------------------------------------------
(* The callers, the timer and the lock: any thread sets, removes and       *)
(* reads ints, saves and flushes, while the dispatcher runs                *)
(* timer_config_save.                                                      *)

IntNames == <<"DevType", "AddrType", "DevClass", "Timeout", "Service">>

\* The entry of the adapter's section that thread t writes.
IntName(t) == IntNames[t]

\* A store in which the first timer_config_save collects: the adapter's
\* section, 2 * CACHE_MAX + 1 devices that are not bonded and one that is.
FullStore ==
  <<OtherSection(AdapterSection)>>
    \o [i \in 1..(2 * CACHE_MAX + 1) |-> DeviceSection(i, FALSE)]
    \o <<DeviceSection(2 * CACHE_MAX + 2, TRUE)>>

Init == InitWith(FullStore, {})

TimerNext ==
  \/ Tick
  \/ AlarmFire
  \/ timer_config_save_lock
  \/ timer_config_save_gc
  \/ timer_config_save_save
  \/ timer_config_save_unlock

FlushNext(t) ==
  \/ btif_config_flush_cancel(t)
  \/ btif_config_flush_wait(t)
  \/ btif_config_flush_lock(t)
  \/ btif_config_flush_save(t)
  \/ btif_config_flush_unlock(t)

Next ==
  \/ \E t \in Threads :
       \/ btif_config_set_int_lock(t, AdapterSection, IntName(t), t)
       \/ btif_config_set_int_body(t)
       \/ btif_config_remove_lock(t, AdapterSection, IntName(t))
       \/ btif_config_remove_body(t)
       \/ \E u \in Threads : btif_config_get_int_lock(t, AdapterSection, IntName(u))
       \/ btif_config_get_int_body(t)
       \/ btif_config_save(t)
       \/ FlushNext(t)
       \/ Return(t)
  \/ TimerNext

Spec == Init /\ [][Next]_vars


\* C4: a burst of save() calls, each made before the countdown the
\* previous one started has run out and with no flush() in between, is
\* followed by exactly one firing of the timer, one settle period after
\* the last save(): while the burst lasts the alarm is armed and its
\* countdown is the settle period less the time since the last save(); the
\* timer never fires twice after a save(), and it fires with a whole
\* settle period gone since the last save().
C4_Debounce ==
  /\ hist.burst => /\ alarm.armed
                   /\ alarm.remaining + hist.sinceSave = CONFIG_SETTLE_PERIOD_MS
  /\ hist.fires <= 1
  /\ hist.fires = 1 => hist.fireAt = CONFIG_SETTLE_PERIOD_MS

\* The timer has fired once after a burst in which a save() restarted a
\* countdown that was under way.
C4_Witness ==
  /\ hist.fires = 1
  /\ hist.rearmed
  /\ hist.fireAt = CONFIG_SETTLE_PERIOD_MS
  /\ tpc = "lock"

\* C5: flush() cancels the pending timer and has written the whole store
\* when it returns; after a flush() during which no save() ran, no timer
\* is pending and the timer callback neither runs nor starts until the
\* next save().
C5_FlushCancelsAndPersists ==
  /\ \A t \in Threads :
       /\ (pc[t] = "flush_unlock" /\ local[t].ok) => disk = store
       /\ (pc[t] = "done" /\ local[t].op = "flush") => local[t].num = 1
  /\ hist.quiet => ~alarm.armed /\ tpc = "idle"

\* A flush() called with the timer pending has returned, the store
\* written, and no save() ran meanwhile.
C5_Witness ==
  \E t \in Threads :
    /\ pc[t] = "done" /\ local[t].op = "flush"
    /\ local[t].len = 1 /\ local[t].ok
    /\ hist.quiet

\* The threads inside a section of code guarded by the lock.
Inside ==
  {t \in Threads : pc[t] \in {"set_int", "set_str", "set_bin", "remove",
                             "get_int", "has_key", "exist", "get_bin",
                             "get_bin_length", "get_str", "flush_save",
                             "flush_unlock"}}
    \cup (IF tpc \in {"gc", "save", "unlock"} THEN {Timer} ELSE {})

\* The thread that takes the step.
Steps(h) == IF h = Timer THEN tpc' # tpc ELSE pc'[h] # pc[h]

\* C6: the threads inside the lock-guarded sections are the holders of
\* the lock and there is at most one; every step that changes the store
\* is taken by the thread holding the lock; and every int a thread has
\* written to a key no other thread writes is in the store, and is what a
\* later get_int of that key returns.
C6_MutationsUnderLock ==
  /\ [](/\ Inside = lock
        /\ Cardinality(lock) <= 1
        /\ \A w \in hist.wrote :
             /\ config_has_key(store, w.key, w.name)
             /\ config_get_int(store, w.key, w.name, 0) = w.num)
  /\ [][/\ store' # store => \E h \in lock : Steps(h)
        /\ \A r \in Threads, w \in hist.wrote :
             (pc[r] = "get_int" /\ pc'[r] = "done"
                /\ local[r].key = w.key /\ local[r].name = w.name)
             => local'[r].ok /\ local'[r].num = w.num]_vars

\* Every thread has written its int, the timer has collected sections
\* under the lock, and a thread has read back the int of another.
C6_Witness ==
  /\ Cardinality(hist.wrote) = Cardinality(Threads)
  /\ Len(store) < Len(FullStore)
  /\ \E r \in Threads :
       /\ pc[r] = "done" /\ local[r].op = "get_int" /\ local[r].ok
       /\ local[r].name # IntName(r)

\* C8: the image a flush writes is the store as it stands under the lock:
\* while the flushing thread still holds the lock after a successful
\* write, the image equals the store, and it holds every int whose
\* set_int had completed.
C8_ImageIsStore ==
  /\ \A t \in Threads :
       (pc[t] = "flush_unlock" /\ local[t].ok)
       => /\ disk = store
          /\ \A w \in hist.wrote : config_get_int(disk, w.key, w.name, 0) = w.num
  /\ (tpc = "unlock" /\ hist.tok)
       => /\ disk = store
          /\ \A w \in hist.wrote : config_get_int(disk, w.key, w.name, 0) = w.num

\* The timer has written the store after collecting sections, and a
\* flush() has written a store that holds a completed set_int.
C8_Witness ==
  /\ tpc = "unlock" /\ hist.tok /\ hist.gone # {} /\ hist.wrote # {}
  /\ disk # FullStore


\* The number of expirations of alarm_timer that are pending.
PendingExpirations == IF alarm.armed THEN 1 ELSE 0

\* C16: the expirations a save() has caused, the pending ones and the
\* ones delivered since the last save(), are never more than one, in any
\* interleaving of save(), flush() and the timer; and the step of a save()
\* leaves one expiration pending, a whole settle period away, whatever
\* was pending before it.
C16_OneTimerOutstanding ==
  /\ [](PendingExpirations + hist.fires <= 1)
  /\ [][(\E t \in Threads : pc[t] = "idle" /\ pc'[t] = "done"
                             /\ local'[t].op = "save")
         => /\ PendingExpirations' = 1
            /\ alarm'.remaining = CONFIG_SETTLE_PERIOD_MS]_vars

\* A save() has restarted a countdown that was under way while a thread
\* was inside flush().
C16_Witness ==
  /\ hist.rearmed
  /\ alarm = [armed |-> TRUE, remaining |-> CONFIG_SETTLE_PERIOD_MS]
  /\ \E t \in Threads : InFlush(t)

\* C14: the image a flush writes, be it the timer's or flush()'s, is what
\* the garbage collection leaves of the store the flush found when it
\* took the lock: the collection has run once, before the write, within
\* the same hold of the lock.
C14_FlushRunsGC ==
  /\ (tpc = "unlock" /\ hist.tok) => disk = GarbageCollect(hist.atLock)
  /\ \A t \in Threads :
       (pc[t] = "flush_unlock" /\ local[t].ok)
       => disk = GarbageCollect(hist.atLock)

---------------------------------------------------------------------------
(* The life of the module: btif_config_init, btif_config_cleanup, and the  *)
(* calls made while |config| is NULL.  An assertion that fails aborts the  *)
(* process.                                                                *)

\* No assertion has failed.
Alive == \A u \in Threads : pc[u] # "aborted"

\* The store btif_config_transcode makes of the legacy file.
LegacyStore ==
  <<OtherSection(AdapterSection), DeviceSection(1, TRUE)>>

\* config_new(CONFIG_FILE_PATH): the parsed file, or NULL when the file
\* is missing or cannot be parsed.
config_new == {NullCfg, Cfg(disk)}

\* btif_config_transcode(LEGACY_CONFIG_FILE_PATH)
btif_config_transcode ==
  {NullCfg} \cup (IF legacy THEN {Cfg(LegacyStore)} ELSE {})

\* config_new_empty()
config_new_empty == {NullCfg, Cfg(<<>>)}

\* The config btif_config_init ends up with (lines 87-98): NULL when all
\* three steps failed.
BuiltConfig(i) ==
  IF ~i.loaded.isNull THEN i.loaded
  ELSE IF ~i.trans.isNull THEN i.trans
  ELSE i.empty

\* if (config_save(config, CONFIG_FILE_PATH)) unlink(LEGACY_CONFIG_FILE_PATH):
\* the branch is entered when config_new failed and a config was built.
SavedAtInit(i) == i.loaded.isNull /\ ~BuiltConfig(i).isNull /\ i.w_ok

\* Faulty variant: the legacy file is unlinked whatever config_save returned.
LegacyAfterInit_unlinked(i) ==
  IF i.loaded.isNull /\ ~BuiltConfig(i).isNull THEN FALSE ELSE i.had_legacy

\* Whether the legacy file exists after btif_config_init.
LegacyAfterInit(i) == IF SavedAtInit(i) THEN FALSE ELSE i.had_legacy

\* bool btif_config_init(void); alarm_new is reached only with a config.
btif_config_init(t) ==
  /\ pc[t] = "idle"
  /\ config = "NULL"
  /\ Alive
  /\ \E ld \in config_new, tr \in btif_config_transcode,
        em \in config_new_empty, wk \in BOOLEAN, tk \in BOOLEAN :
       LET i == [loaded |-> ld, trans |-> tr, empty |-> em, w_ok |-> wk,
                 timer_ok |-> tk, disk0 |-> disk, had_legacy |-> legacy]
           built == BuiltConfig(i)
           ret == ~built.isNull /\ tk
       IN /\ disk' = IF SavedAtInit(i) THEN built.cfg ELSE disk
          /\ legacy' = LegacyAfterInit(i)
          /\ store' = IF ret THEN built.cfg ELSE <<>>
          /\ config' = IF ret THEN "store" ELSE "NULL"
          /\ alarm_timer' = IF ret THEN "alarm" ELSE "NULL"
          /\ local' = [local EXCEPT ![t] = [NoLocal EXCEPT !.op = "init",
                                                           !.ok = ret,
                                                           !.init = i]]
  /\ lock' = {}
  /\ alarm' = [armed |-> FALSE, remaining |-> 0]
  /\ pc' = [pc EXCEPT ![t] = "done"]
  /\ UNCHANGED <<tpc, cursor, hist>>

\* void btif_config_cleanup(void): btif_config_flush() comes first.
btif_config_cleanup(t) ==
  /\ alarm_timer # "NULL"
  /\ Begin(t, "flush_wait", [NoLocal EXCEPT !.op = "cleanup",
                                           !.len = IF alarm.armed THEN 1 ELSE 0])
  /\ alarm' = [armed |-> FALSE, remaining |-> 0]
  /\ hist' = FlushHistory(t)
  /\ UNCHANGED <<config, alarm_timer, legacy, store, disk, lock, tpc, cursor>>

\* alarm_free, config_free, pthread_mutex_destroy; both pointers to NULL.
btif_config_cleanup_free(t) ==
  /\ pc[t] = "cleanup_free"
  /\ alarm' = [armed |-> FALSE, remaining |-> 0]
  /\ store' = <<>>
  /\ config' = "NULL"
  /\ alarm_timer' = "NULL"
  /\ pc' = [pc EXCEPT ![t] = "done"]
  /\ local' = FreedSections(local, store, SectionNames(store))
  /\ cursor' = [u \in Threads |->
       IF cursor[u].name # End
         THEN [cursor[u] EXCEPT !.dangling = TRUE] ELSE cursor[u]]
  /\ UNCHANGED <<disk, lock, tpc, hist, legacy>>

\* The operations that start with assert(config != NULL) or
\* assert(alarm_timer != NULL).
PublicOps ==
  {"has_key", "exist", "get_int", "set_int", "get_str", "set_str", "get_bin",
   "get_bin_length", "set_bin", "section_begin", "section_end",
   "section_next", "section_name", "remove", "save", "flush"}

\* The first assertion of operation |op| fails (btif_config_cleanup meets
\* the assertion of the btif_config_flush it calls).
AssertionFails(t, op) ==
  /\ pc[t] = "idle"
  /\ Alive
  /\ IF op \in {"save", "flush", "cleanup"}
       THEN config = "NULL" \/ alarm_timer = "NULL"
       ELSE config = "NULL"
  /\ pc' = [pc EXCEPT ![t] = "aborted"]
  /\ local' = [local EXCEPT ![t] = [NoLocal EXCEPT !.op = op]]
  /\ UNCHANGED <<config, alarm_timer, legacy, store, disk, lock, alarm, tpc,
                 cursor, hist>>

\* The state before the first btif_config_init: the canonical file may
\* hold a store, the legacy file may exist.
InitLife ==
  /\ config = "NULL"
  /\ alarm_timer = "NULL"
  /\ legacy \in BOOLEAN
  /\ store = <<>>
  /\ disk \in {<<>>, FullStore}
  /\ lock = {}
  /\ pc = [t \in Threads |-> "idle"]
  /\ local = [t \in Threads |-> NoLocal]
  /\ alarm = [armed |-> FALSE, remaining |-> 0]
  /\ tpc = "idle"
  /\ cursor = [t \in Threads |-> [name |-> End, dangling |-> FALSE]]
  /\ hist = HistInit({})

NextLife ==
  \/ btif_config_init(1)
  \/ btif_config_cleanup(1)
  \/ btif_config_cleanup_free(1)
  \/ \E op \in PublicOps \cup {"cleanup"} : AssertionFails(1, op)
  \/ btif_config_set_int_lock(1, AdapterSection, IntName(1), 1)
  \/ btif_config_set_int_body(1)
  \/ btif_config_save(1)
  \/ FlushNext(1)
  \/ Return(1)
  \/ TimerNext

SpecLife == InitLife /\ [][NextLife]_vars

\* Thread t enters one of the public operations.
CallStep(t) ==
  pc[t] = "idle" /\ pc'[t] # "idle" /\ local'[t].op \in PublicOps

\* C13: a public operation entered while |config| is NULL ends in a failed
\* assertion with the store, the file, the lock, the alarm and the
\* pointers untouched; |config| and |alarm_timer| are NULL together, and
\* they are NULL when btif_config_cleanup has returned and when
\* btif_config_init has returned false.
C13_AssertsBeforeInit ==
  /\ [][\A t \in Threads :
          (CallStep(t) /\ config = "NULL")
          => /\ pc'[t] = "aborted"
             /\ UNCHANGED <<store, disk, lock, alarm, tpc, cursor, config,
                            alarm_timer, legacy>>]_vars
  /\ []((config = "NULL") <=> (alarm_timer = "NULL"))
  /\ [](\A t \in Threads :
          (/\ pc[t] = "done"
           /\ \/ local[t].op = "cleanup"
              \/ local[t].op = "init" /\ ~local[t].ok)
          => config = "NULL" /\ alarm_timer = "NULL")

\* A save() has met its assertion after a cleanup: the file holds an int
\* that was set while the module was initialised.
C13_Witness ==
  \E t \in Threads :
    /\ pc[t] = "aborted" /\ local[t].op = "save"
    /\ config = "NULL"
    /\ config_has_key(disk, AdapterSection, IntName(1))

\* C18: a finished btif_config_init has returned true exactly when a
\* config was built (the canonical file loaded, else the legacy file
\* transcoded, else an empty config allocated) and the alarm was created;
\* then the store is that config, both pointers are set and no alarm is
\* armed.  The file has been written, with the config built, exactly when
\* the canonical file did not load, a config was built and config_save
\* succeeded, and the legacy file has been deleted only then.
C18_InitFallback ==
  \A t \in Threads :
    (pc[t] = "done" /\ local[t].op = "init")
    => LET i == local[t].init
           built == IF ~i.loaded.isNull THEN i.loaded
                    ELSE IF ~i.trans.isNull THEN i.trans
                    ELSE i.empty
           persisted == i.loaded.isNull /\ ~built.isNull /\ i.w_ok
       IN /\ local[t].ok = (~built.isNull /\ i.timer_ok)
          /\ local[t].ok => /\ config = "store" /\ alarm_timer = "alarm"
                            /\ store = built.cfg
                            /\ ~alarm.armed /\ tpc = "idle" /\ lock = {}
          /\ disk = IF persisted THEN built.cfg ELSE i.disk0
          /\ (i.had_legacy /\ ~legacy) => persisted
          /\ ~i.had_legacy => ~legacy

\* The canonical file did not load, the legacy file was transcoded,
\* written to the canonical path and deleted, and init returned true.
C18_Witness ==
  \E t \in Threads :
    /\ pc[t] = "done" /\ local[t].op = "init" /\ local[t].ok
    /\ local[t].init.had_legacy /\ ~legacy
    /\ store = LegacyStore /\ disk = LegacyStore

---------------------------------------------------------------------------
(* Every operation beside the scheduler: one caller uses each operation   *)
(* of the store while it saves and flushes and the timer runs.             *)

NextOps ==
  \/ btif_config_set_int_lock(1, AdapterSection, IntName(1), 1)
  \/ btif_config_set_int_body(1)
  \/ btif_config_set_str_lock(1, Device(1), "Name", <<"A","b">>)
  \/ btif_config_set_str_body(1)
  \/ btif_config_set_bin_lock(1, Device(1), "LinkKey", <<18>>)
  \/ btif_config_set_bin_body(1)
  \/ btif_config_remove_lock(1, Device(1), "LinkKey")
  \/ btif_config_remove_body(1)
  \/ btif_config_has_key_lock(1, Device(1))
  \/ btif_config_has_key_body(1)
  \/ btif_config_exist_lock(1, Device(1), "LinkKey")
  \/ btif_config_exist_body(1)
  \/ btif_config_get_int_lock(1, AdapterSection, IntName(1))
  \/ btif_config_get_int_body(1)
  \/ btif_config_get_str_lock(1, Device(1), "Name", 2)
  \/ btif_config_get_str_read(1)
  \/ btif_config_get_str_copy(1)
  \/ btif_config_get_bin_lock(1, Device(1), "LinkKey", 1)
  \/ btif_config_get_bin_read(1)
  \/ btif_config_get_bin_decode(1)
  \/ btif_config_get_bin_length_lock(1, Device(1), "LinkKey")
  \/ btif_config_get_bin_length_read(1)
  \/ btif_config_get_bin_length_len(1)
  \/ btif_config_section_begin(1)
  \/ btif_config_section_end(1)
  \/ btif_config_section_next(1)
  \/ btif_config_section_name(1)
  \/ btif_config_save(1)
  \/ FlushNext(1)
  \/ Return(1)
  \/ TimerNext

\* The adapter's section and one device that is not bonded.
SmallStore == <<OtherSection(AdapterSection), DeviceSection(1, FALSE)>>

InitOps == InitWith(SmallStore, {})

SpecOps == InitOps /\ [][NextOps]_vars

\* The operation thread t is in when it takes a step.
StepOp(t) == IF pc[t] = "idle" THEN local'[t].op ELSE local[t].op

\* Thread t takes a step of an operation of the store: any public
\* operation but save() and flush().
StoreOpStep(t) ==
  /\ pc'[t] # pc[t]
  /\ StepOp(t) \in PublicOps \ {"save", "flush"}

\* C15: no step of a setter, of remove, of a getter or of an iterator
\* operation changes the scheduler: the alarm (armed or not, and its
\* countdown) and the timer callback stand as they stood before the step.
C15_StoreOpsLeaveScheduler ==
  [][\A t \in Threads : StoreOpStep(t) => alarm' = alarm /\ tpc' = tpc]_vars

\* A set_bin has run from its call to its return while the countdown was
\* under way (the one caller had called save() before it).
C15_Witness ==
  /\ pc[1] = "done" /\ local[1].op = "set_bin"
  /\ alarm.armed /\ alarm.remaining = 1

---------------------------------------------------------------------------
(* A reader beside the timer: thread 1 walks the sections and reads a      *)
(* binary value while thread 2 writes that value and saves, and the        *)
(* dispatcher collects sections.                                           *)

NextIter ==
  \/ btif_config_section_begin(1)
  \/ btif_config_section_end(1)
  \/ btif_config_section_next(1)
  \/ btif_config_section_name(1)
  \/ btif_config_get_bin_lock(1, Device(1), "Name", 1)
  \/ btif_config_get_bin_read(1)
  \/ btif_config_get_bin_decode(1)
  \/ btif_config_set_str_lock(2, Device(1), "Name", <<"A","b">>)
  \/ btif_config_set_str_body(2)
  \/ btif_config_save(2)
  \/ \E t \in Threads : Return(t)
  \/ TimerNext

SpecIter == Init /\ [][NextIter]_vars

\* Thread t takes a step that reads the store: a section handle or a
\* section's name through the iterator, an entry inside a getter, or a
\* stored text through the pointer a getter kept.
ReadsStore(t) ==
  \/ /\ pc[t] = "idle" /\ pc'[t] = "done"
     /\ local'[t].op \in {"section_begin", "section_end", "section_next",
                         "section_name"}
  \/ /\ pc[t] \in {"has_key", "exist", "get_int", "get_bin", "get_bin_length",
                  "get_str"}
     /\ pc'[t] # pc[t]
  \/ /\ pc[t] \in {"get_bin_decode", "get_bin_length_len", "get_str_copy"}
     /\ ~local[t].vs.isNull
     /\ pc'[t] = "done"

\* C7: every step that reads the store is taken by a thread holding the
\* lock, so no thread reads a section handle, a section's name or a stored
\* value while another thread is inside the lock.
C7_ReadsUnderLock ==
  [][\A t \in Threads : ReadsStore(t) => (t \in lock /\ lock \ {t} = {})]_vars

---------------------------------------------------------------------------
(* The scheduler under fair scheduling: the dispatcher thread and a        *)
(* thread inside btif_config_flush keep running; callers need not call.    *)

NextFair ==
  \/ \E t \in Threads :
       \/ btif_config_save(t)
       \/ FlushNext(t)
       \/ Return(t)
  \/ TimerNext

FlushProgress(t) ==
  \/ btif_config_flush_wait(t)
  \/ btif_config_flush_lock(t)
  \/ btif_config_flush_save(t)
  \/ btif_config_flush_unlock(t)

FairSpec ==
  /\ Init
  /\ [][NextFair]_vars
  /\ WF_vars(TimerNext)
  /\ \A t \in Threads : WF_vars(FlushProgress(t))

\* C9 as stated: once a save() has been made while a flush was in
\* progress, a flush eventually begins after it.
C9_RacingSaveFlushed == hist.owed ~> ~hist.owed

SaveStep == \E t \in Threads : btif_config_save(t)

\* C9 as amended: the same, provided the save() calls come to an end.
C9_RacingSaveFlushedOnceQuiet ==
  (<>[][~SaveStep]_vars) => (hist.owed ~> ~hist.owed)

\* A save() has armed the alarm while the timer callback was running.
C9_Witness ==
  /\ hist.owed
  /\ alarm.armed
  /\ tpc \in {"lock", "gc", "save", "unlock"}

\* A step in which config_save fails.
PersistFails ==
  \/ tpc = "save" /\ tpc' = "unlock" /\ ~hist'.tok
  \/ \E t \in Threads :
       pc[t] = "flush_save" /\ pc'[t] = "flush_unlock" /\ ~local'[t].ok

\* config_save is being called.
Persisting == tpc = "save" \/ \E t \in Threads : pc[t] = "flush_save"

\* C12: a failing config_save leaves the store, the file and the alarm as
\* they were; when the failed flush ends and no save() ran during it, no
\* alarm is armed; every save() arms the alarm with the whole settle
\* period; and, once the save() calls have ended, an alarm armed after a
\* failure leads to another call of config_save.
C12_PersistFailure ==
  /\ [][PersistFails => store' = store /\ disk' = disk /\ alarm' = alarm]_vars
  /\ []((tpc = "unlock" /\ ~hist.tok /\ ~hist.owed) => ~alarm.armed)
  /\ [](\A t \in Threads :
          (pc[t] = "flush_unlock" /\ ~local[t].ok /\ t \notin hist.during)
          => ~alarm.armed)
  /\ [][SaveStep =>
         alarm' = [armed |-> TRUE, remaining |-> CONFIG_SETTLE_PERIOD_MS]]_vars
  /\ (<>[][~SaveStep]_vars) => ((hist.failed /\ alarm.armed) ~> Persisting)

\* The timer's config_save has failed after a collection, the callback
\* has ended, and a save() has armed the alarm anew.
C12_Witness ==
  /\ hist.failed
  /\ disk # store
  /\ tpc = "idle"
  /\ alarm = [armed |-> TRUE, remaining |-> CONFIG_SETTLE_PERIOD_MS]


---------------------------------------------------------------------------
(* Getters beside writers: thread 1 reads the name of a device as a        *)
(* string and as a binary value while thread 2 overwrites and removes it   *)
(* and saves, and the timer collects the device's section.                 *)

NextAtomic ==
  \/ btif_config_get_str_lock(1, Device(1), "Name", 3)
  \/ btif_config_get_str_read(1)
  \/ btif_config_get_str_copy(1)
  \/ btif_config_get_bin_lock(1, Device(1), "Name", 1)
  \/ btif_config_get_bin_read(1)
  \/ btif_config_get_bin_decode(1)
  \/ btif_config_set_str_lock(2, Device(1), "Name", <<"A","b">>)
  \/ btif_config_set_str_body(2)
  \/ btif_config_remove_lock(2, Device(1), "Name")
  \/ btif_config_remove_body(2)
  \/ btif_config_save(2)
  \/ \E t \in Threads : Return(t)
  \/ TimerNext

SpecAtomic == Init /\ [][NextAtomic]_vars

\* What thread t's call returns to its caller.
Returned(loc) == [ok |-> loc.ok, buf |-> loc.buf, len |-> loc.len]

\* C19: what get_str copies and get_bin decodes is the text the entry
\* held at the instant the call read it under the lock (local[t].vs),
\* whatever other threads and the timer do meanwhile; and the step that
\* reads a stored text is taken with the lock held.
C19_GettersAtomic ==
  [][\A t \in Threads :
       /\ (pc[t] = "get_str_copy" /\ pc'[t] = "done")
          => Returned(local'[t])
               = GetStrResult(local[t].vs, local[t].buf, local[t].len)
       /\ (pc[t] = "get_bin_decode" /\ pc'[t] = "done")
          => Returned(local'[t])
               = GetBinResult(local[t].vs, local[t].buf, local[t].len)
       /\ (pc[t] \in {"get_str_copy", "get_bin_decode"} /\ pc'[t] = "done"
             /\ ~local[t].vs.isNull)
          => t \in lock]_vars

---------------------------------------------------------------------------
(* The cache of devices over many flushes: one caller adds devices and     *)
(* saves; between two runs of the timer callback it adds CACHE_MAX         *)
(* non-bonded device sections at most.                                     *)

\* The devices the caller adds: one address more than the store may ever
\* hold when the caller keeps to CACHE_MAX additions per run.
PoolSize == 3 * CACHE_MAX + 1

\* The bonded device.
BondedIndex == PoolSize + 1

\* The stores at the start: the adapter, a bonded device and up to
\* 2 * CACHE_MAX non-bonded devices.
BoundStores ==
  {<<OtherSection(AdapterSection),
     [name |-> Device(BondedIndex),
      entries |-> SetEntry(Entries1("Name", SomeText), "LinkKey", SomeText)]>>
     \o [i \in 1..n |-> DeviceSection(i, FALSE)] :
   n \in 0..(2 * CACHE_MAX)}

InitBound ==
  \E cfg \in BoundStores :
    /\ config = "store"
    /\ alarm_timer = "alarm"
    /\ legacy = FALSE
    /\ store = cfg
    /\ disk = cfg
    /\ lock = {}
    /\ pc = [t \in Threads |-> "idle"]
    /\ local = [t \in Threads |-> NoLocal]
    /\ alarm = [armed |-> FALSE, remaining |-> 0]
    /\ tpc = "idle"
    /\ cursor = [t \in Threads |-> [name |-> End, dangling |-> FALSE]]
    /\ hist = [HistInit({}) EXCEPT !.base = NonBonded(cfg)]

\* The caller may still raise the number of non-bonded device sections:
\* fewer than CACHE_MAX have been added since the last run of the callback.
MayAdd == NonBonded(store) < hist.base + CACHE_MAX

\* The device the caller adds next: the pool is scanned round and round,
\* so it is the one after the device of the last section.
NextDevice ==
  LET used == {i \in 1..PoolSize : Device(i) = store[Len(store)].name} IN
    IF used = {} THEN 1 ELSE ((CHOOSE i \in used : TRUE) % PoolSize) + 1

NextBound ==
  \/ /\ MayAdd
     /\ ~config_has_section(store, Device(NextDevice))
     /\ btif_config_set_str_lock(1, Device(NextDevice), "Name", SomeText)
  \/ btif_config_set_str_body(1)
  \/ btif_config_save(1)
  \/ Return(1)
  \/ TimerNext

SpecBound == InitBound /\ [][NextBound]_vars

\* C20: when the timer callback has collected, the store holds at most
\* 2 * CACHE_MAX non-bonded device sections; and the collecting step
\* lowers their number by exactly CACHE_MAX when it is above
\* 2 * CACHE_MAX and leaves it otherwise.
C20_CacheBounded ==
  /\ [](tpc \in {"save", "unlock"} => NonBonded(store) <= 2 * CACHE_MAX)
  /\ [][GCStep =>
         NonBonded(store') = IF NonBonded(store) > 2 * CACHE_MAX
                               THEN NonBonded(store) - CACHE_MAX
                               ELSE NonBonded(store)]_vars

\* A later run of the callback has collected CACHE_MAX sections, one of
\* them added since the file was last written, and 2 * CACHE_MAX remain.
C20_Witness ==
  /\ tpc = "save"
  /\ Cardinality(hist.gone) = CACHE_MAX
  /\ NonBonded(store) = 2 * CACHE_MAX
  /\ \E k \in hist.gone : ~config_has_section(disk, k)

---------------------------------------------------------------------------
(* Progress: callers set ints, save and flush while the timer runs.  A     *)
(* thread that can take its next step again and again takes it (the        *)
(* mutex and the wait of alarm_cancel are fair); callers need not call.    *)

NextProgress ==
  \/ \E t \in Threads :
       \/ btif_config_set_int_lock(t, AdapterSection, IntName(1), 1)
       \/ btif_config_set_int_body(t)
       \/ btif_config_save(t)
       \/ FlushNext(t)
       \/ Return(t)
  \/ TimerNext

\* The steps of thread t inside a call it has started.
Progress(t) ==
  \/ btif_config_set_int_body(t)
  \/ FlushProgress(t)

SpecProgress ==
  /\ InitOps
  /\ [][NextProgress]_vars
  /\ SF_vars(TimerNext)
  /\ \A t \in Threads : SF_vars(Progress(t))

\* C17: a thread that is outside the locked sections, that has returned,
\* or that waits in alarm_cancel or for the mutex holds no lock; a lock
\* that is held is released; every call that has started returns; and
\* the timer callback, once started, ends.
C17_NoDeadlock ==
  /\ [](\A t \in Threads :
          pc[t] \in {"idle", "done", "flush_wait", "flush_lock"}
          => t \notin lock)
  /\ [](tpc \in {"idle", "lock"} => Timer \notin lock)
  /\ (lock # {}) ~> (lock = {})
  /\ \A t \in Threads : (pc[t] \notin {"idle", "done"}) ~> (pc[t] = "done")
  /\ (tpc # "idle") ~> (tpc = "idle")

\* A thread inside flush() waits for the mutex while the timer callback
\* holds it, and the other thread is inside flush() too.
C17_Witness ==
  /\ Timer \in lock
  /\ \E t \in Threads : pc[t] = "flush_lock"
  /\ \A t \in Threads : InFlush(t)

=============================================================================
